---- MODULE Spec2Model ----
(***************************************************************************)
(* Request tracker: HTTP API (backend/main.go, first program) and SQS      *)
(* worker (backend/main.go, second program) over one DynamoDB table        *)
(* "Requests" and one SQS queue "request-events".                          *)
(*                                                                         *)
(* State: the table, the queue, each worker's position in its polling      *)
(* loop and the time it read for the event it applies, each PATCH          *)
(* handler's position between its UpdateItem and its SendMessage, each     *)
(* POST handler's position between its PutItem, the assignment of the      *)
(* result to main's err and the test of err, that shared variable, the     *)
(* wall clock, and history variables (faults, emitted, deleted, applies,   *)
(* lastWrite, answered) that only record what happened.                    *)
(***************************************************************************)
EXTENDS Naturals, Integers, Sequences, FiniteSets, Bags, TLC

VARIABLES
    store,      \* DynamoDB table Requests: PK -> item (item = present attributes)
    queue,      \* SQS queue: set of messages [mid, body, vis, owner]
    wpc,        \* worker -> "poll" | "handle" | "apply" | "ack"
    batch,      \* worker -> messages of resp.Messages not yet handled: [mid, body, handle]
    clock,      \* wall clock, in seconds
    faults,     \* history: bag of the failures so far, <<kind, what failed>>
    nForeign,   \* number of messages sent by other producers so far
    emitted,    \* history: events built by PATCH after a successful UpdateItem
    deleted,    \* history: messages removed from the queue by a worker
    applies,    \* history: bag of <<requestId, eventId>>, one per nil return of applyStatusEvent
    inflight,   \* PATCH handlers between two of their calls: [ev, pc], pc "update" | "send"
    lastWrite,  \* history: request id -> what the latest successful UpdateItem of PATCH wrote
    wnow,       \* worker -> now of the applyStatusEvent it is in, "" when in none
    mainErr,    \* the variable err of main, which every POST handler assigns and tests
    posting,    \* POST handlers under way: [id, token, title, createdAt, res, pc]
    nPosts,     \* number of POST handlers that drew their identifiers so far
    answered    \* history: the responses of the POST handlers, [id, token, code]

vars == <<store, queue, wpc, batch, clock, faults, nForeign,
          emitted, deleted, applies, inflight, lastWrite,
          wnow, mainErr, posting, nPosts, answered>>

----------------------------------------------------------------------------
(* Bounds of the model *)

MaxReq == 1
MaxPosts == 2
MaxCalls == 3
MaxLiveCalls == 4
MaxLiveClock == 0
MaxMessages == 2
MaxForeign == 1
MaxClock == 1
MaxFaults == 1

(* Program constants *)

MaxNumberOfMessages == 10

Workers == {"w1", "w2"}

(* A switch that has no case for PENDING: no way back to the initial status *)
StatusesForwardOnly == {"IN_PROGRESS", "DONE", "REJECTED"}

(* case "PENDING", "IN_PROGRESS", "DONE", "REJECTED" *)
Statuses == {"PENDING", "IN_PROGRESS", "DONE", "REJECTED"}

(* uuid.NewString(): the n-th identifier drawn for a purpose; identifiers of
   one purpose are pairwise distinct, and distinct from UnknownId. *)
RequestIdPool == <<"r1", "r2", "r3", "r4">>
TokenPool == <<"k1", "k2", "k3", "k4">>
EventIdPool == <<"e1", "e2", "e3", "e4", "e5", "e6">>
ForeignMidPool == <<"f1", "f2", "f3", "f4">>
UnknownId == "r0"

(* The identifiers of a pool *)
PoolSet(pool) == {pool[i] : i \in 1..Len(pool)}

(* time.Now().UTC().Format(time.RFC3339) of clock value c *)
TimePool == <<"T0", "T1", "T2", "T3", "T4">>
FormatRFC3339(c) == TimePool[c + 1]

Min(a, b) == IF a <= b THEN a ELSE b

(* The values time.Now() can return in a handler that runs now: the clock
   may have advanced by a second since the last reading. *)
Nows == clock .. Min(clock + 1, MaxClock)

----------------------------------------------------------------------------
(* JSON message bodies.  A body is a JSON object (its members in the order  *)
(* of the text, each a key and a typed value), the JSON text null, or text *)
(* that is neither (no JSON, or a JSON array, number, string or boolean).  *)

JStr(s) == [t |-> "string", v |-> s]
JNum(s) == [t |-> "number", v |-> s]
JNull == [t |-> "null", v |-> ""]

(* A key of the text is the sequence of its characters, each a string of
   one character; the two characters outside ASCII that fold to an ASCII
   letter are written by code point: U+017F (long s) and U+212A (Kelvin). *)
UpperCase == <<"A", "B", "C", "D", "E", "F", "G", "H", "I", "J", "K", "L", "M",
               "N", "O", "P", "Q", "R", "S", "T", "U", "V", "W", "X", "Y", "Z">>
LowerCase == <<"a", "b", "c", "d", "e", "f", "g", "h", "i", "j", "k", "l", "m",
               "n", "o", "p", "q", "r", "s", "t", "u", "v", "w", "x", "y", "z">>

(* The characters that fold to another one, each with the one it folds to *)
FoldTable ==
    [c \in PoolSet(UpperCase) \cup {"U+017F", "U+212A"} |->
        IF c = "U+017F" THEN "s"
        ELSE IF c = "U+212A" THEN "k"
        ELSE LowerCase[CHOOSE i \in 1..Len(UpperCase) : UpperCase[i] = c]]

(* The character all case variants of c fold to *)
FoldChar(c) == IF c \in DOMAIN FoldTable THEN FoldTable[c] ELSE c

(* The key with every character folded *)
Fold(k) == [i \in 1..Len(k) |-> FoldChar(k[i])]

(* One member of an object *)
Member(k, v) == [k |-> k, v |-> v]

(* The json tags of StatusChangedEvent *)
EventFields == {"eventId", "requestId", "newStatus", "changedAt"}

(* The characters of a tag *)
TagChars ==
    [eventId |-> <<"e", "v", "e", "n", "t", "I", "d">>,
     requestId |-> <<"r", "e", "q", "u", "e", "s", "t", "I", "d">>,
     newStatus |-> <<"n", "e", "w", "S", "t", "a", "t", "u", "s">>,
     changedAt |-> <<"c", "h", "a", "n", "g", "e", "d", "A", "t">>]

(* The tags folded *)
FoldedTags == [f \in EventFields |-> Fold(TagChars[f])]

(* The struct field of a tag *)
StructField == [eventId |-> "EventID", requestId |-> "RequestID",
                newStatus |-> "NewStatus", changedAt |-> "ChangedAt"]

ZeroEvent == [EventID |-> "", RequestID |-> "", NewStatus |-> "", ChangedAt |-> ""]

(* json.Marshal(ev): the fields in the order of the struct, each under its
   tag *)
Marshal(ev) ==
    [kind |-> "object",
     fields |-> <<Member(TagChars["eventId"], JStr(ev.EventID)),
                  Member(TagChars["requestId"], JStr(ev.RequestID)),
                  Member(TagChars["newStatus"], JStr(ev.NewStatus)),
                  Member(TagChars["changedAt"], JStr(ev.ChangedAt))>>]

(* The tag a key of the text is decoded into: the tag equal to it, or else
   the tag equal to it when case is ignored (every case variant of a tag is
   a key of its field); "" when there is none *)
FieldOf(k) ==
    IF \E f \in EventFields : TagChars[f] = k
    THEN CHOOSE f \in EventFields : TagChars[f] = k
    ELSE LET folded == Fold(k)
         IN  IF \E f \in EventFields : FoldedTags[f] = folded
             THEN CHOOSE f \in EventFields : FoldedTags[f] = folded
             ELSE ""

(* The decoder at one member: a key with no field is skipped; null leaves
   the field as it is; a string is stored; any other value is a type error,
   which is kept while decoding goes on *)
DecodeMember(st, m) ==
    LET f == FieldOf(m.k)
    IN  IF f = "" THEN st
        ELSE IF m.v.t = "null" THEN st
        ELSE IF m.v.t = "string" THEN [st EXCEPT !.ev[StructField[f]] = m.v.v]
        ELSE [st EXCEPT !.err = TRUE]

RECURSIVE DecodeMembers(_, _, _)
DecodeMembers(st, fields, i) ==
    IF i > Len(fields) THEN st
    ELSE DecodeMembers(DecodeMember(st, fields[i]), fields, i + 1)

(* json.Unmarshal(body, &ev) into a zero ev: null is accepted and changes
   nothing; other text that is no object is an error; an object is decoded
   member by member, the fields decoded before and after a type error being
   set all the same. *)
Unmarshal(body) ==
    IF body.kind = "null" THEN [err |-> FALSE, ev |-> ZeroEvent]
    ELSE IF body.kind # "object" THEN [err |-> TRUE, ev |-> ZeroEvent]
    ELSE DecodeMembers([err |-> FALSE, ev |-> ZeroEvent], body.fields, 1)

----------------------------------------------------------------------------
(* DynamoDB *)

PKOf(id) == <<"REQ#", id>>

(* SET a = .., b = ..: the attributes of upd replace or extend the item's *)
SetAttrs(item, upd) == upd @@ item

(* PutItem: unconditional insert or overwrite *)
PutItem(table, item) ==
    [k \in (DOMAIN table) \cup {item.PK} |-> IF k = item.PK THEN item ELSE table[k]]

(* The item under key pk replaced by newItem *)
ReplaceItem(table, pk, newItem) == [table EXCEPT ![pk] = newItem]

(* if_not_exists(statusHistory, :empty) *)
HistoryOf(item) == IF "statusHistory" \in DOMAIN item THEN item.statusHistory ELSE <<>>

ExistingIds == {pk[2] : pk \in DOMAIN store}

(* The function f with the value v recorded for the key k *)
Record(f, k, v) == [x \in (DOMAIN f) \cup {k} |-> IF x = k THEN v ELSE f[x]]

----------------------------------------------------------------------------
(* Initial state: empty table, empty queue, every worker about to poll *)

Init ==
    /\ store = <<>>
    /\ queue = {}
    /\ wpc = [w \in Workers |-> "poll"]
    /\ batch = [w \in Workers |-> <<>>]
    /\ clock = 0
    /\ faults = EmptyBag
    /\ nForeign = 0
    /\ emitted = {}
    /\ deleted = {}
    /\ applies = EmptyBag
    /\ inflight = {}
    /\ lastWrite = <<>>
    /\ wnow = [w \in Workers |-> ""]
    /\ mainErr = "nil"
    /\ posting = {}
    /\ nPosts = 0
    /\ answered = {}

(* The variables of the POST handlers, and the worker's time *)
postVars == <<mainErr, posting, nPosts, answered>>

(* http.Error(w, msg, code) *)
HttpError(msg, code) == [code |-> code, msg |-> msg, out |-> <<>>]

(* A 200 response carrying the JSON encoding of out *)
HttpOk(out) == [code |-> 200, msg |-> "", out |-> out]

CanFail == BagCardinality(faults) < MaxFaults

(* faults with the failure <<kind, what>> added when failed, as before otherwise *)
Failing(failed, kind, what) ==
    IF failed THEN faults (+) SetToBag({<<kind, what>>}) ELSE faults

(* Messages sent to the queue so far, by the API and by other producers *)
Sends == Cardinality({e \in emitted : e.sent}) + nForeign

(* A call can still be made: the POST handlers begun, the messages sent and
   those the PATCH handlers under way are about to send are fewer than
   MaxCalls *)
CanCall == nPosts + Sends + Cardinality(inflight) < MaxCalls

(* A message can still be sent: those sent and those the PATCH handlers under
   way are about to send are fewer than MaxMessages *)
CanSend == CanCall /\ Sends + Cardinality(inflight) < MaxMessages

(* The request identifiers the API has returned to a caller: callers learn
   an identifier from the response to their POST and from nowhere else *)
KnownIds == {a.id : a \in {x \in answered : x.code = 200}}

(* The tokens of the tracking URLs returned *)
KnownTokens == {a.token : a \in {x \in answered : x.code = 200}}

(* The identifiers callers put in a path or in a message: one the API
   returned, or one it never returned *)
RequestPaths == KnownIds \cup {UnknownId}

----------------------------------------------------------------------------
(* POST /requests *)

(* An item that is written with an empty history already in it *)
NewRequestItemWithHistory(id, title, createdAt, requesterToken) ==
    [PK |-> PKOf(id), title |-> title, status |-> "PENDING",
     createdAt |-> createdAt, requesterToken |-> requesterToken, statusHistory |-> <<>>]

(* The item written by the handler *)
NewRequestItem(id, title, createdAt, requesterToken) ==
    [PK |-> PKOf(id), title |-> title, status |-> "PENDING",
     createdAt |-> createdAt, requesterToken |-> requesterToken]

(* The checks before any call: the response that ends the handler, code 0
   when it goes on *)
checkCreate(in) ==
    IF in.badJson THEN HttpError("bad json", 400)
    ELSE IF in.title = "" THEN HttpError("title required", 400)
    ELSE [code |-> 0, msg |-> "", out |-> <<>>]

(* ddb.PutItem: the table afterwards and the error returned *)
putRequest(table, item, putFails) ==
    IF putFails THEN [table |-> table, err |-> "error"]
    ELSE [table |-> PutItem(table, item), err |-> "nil"]

(* if err != nil { 500 } else the encoding of out; errRead is the value the
   handler finds in err of main *)
respondCreate(errRead, out) ==
    IF errRead # "nil" THEN HttpError("failed to persist request", 500)
    ELSE HttpOk(out)

(* out and the token of the tracking URL *)
CreateRequestOutput(id, title, createdAt, requesterToken) ==
    [requestId |-> id, title |-> title, createdAt |-> createdAt, token |-> requesterToken]

CreateInputs ==
    {[badJson |-> TRUE, title |-> ""], [badJson |-> FALSE, title |-> ""],
     [badJson |-> FALSE, title |-> "t1"]}

(* The n-th identifier of a pool; past the pool's end no identifier is drawn *)
Draw(pool, n) == IF n <= Len(pool) THEN pool[n] ELSE UnknownId

(* The handler up to its PutItem: the checks, time.Now() and the two
   uuid.NewString() *)
CreateBegin ==
    \E in \in CreateInputs, now \in Nows :
        IF checkCreate(in).code # 0
        THEN now = clock /\ UNCHANGED vars
        ELSE /\ nPosts < MaxPosts /\ CanCall
             /\ posting' = posting \cup
                    {[id |-> Draw(RequestIdPool, nPosts + 1),
                      token |-> Draw(TokenPool, nPosts + 1),
                      title |-> in.title, createdAt |-> FormatRFC3339(now),
                      res |-> "nil", pc |-> "put"]}
             /\ nPosts' = nPosts + 1
             /\ clock' = now
             /\ UNCHANGED <<store, queue, wpc, batch, faults, nForeign, emitted, deleted,
                            applies, inflight, lastWrite, wnow, mainErr, answered>>

(* ddb.PutItem is carried out and returns to the handler *)
CreatePut ==
    \E h \in posting, putFails \in BOOLEAN :
        LET p == putRequest(store, NewRequestItem(h.id, h.title, h.createdAt, h.token),
                            putFails)
        IN  /\ h.pc = "put"
            /\ putFails => CanFail
            /\ ~putFails => Cardinality(DOMAIN store) < MaxReq
            /\ faults' = Failing(putFails, "put", h.id)
            /\ store' = p.table
            /\ posting' = (posting \ {h}) \cup {[h EXCEPT !.res = p.err, !.pc = "assign"]}
            /\ UNCHANGED <<queue, wpc, batch, clock, nForeign, emitted, deleted, applies,
                           inflight, lastWrite, wnow, mainErr, nPosts, answered>>

(* _, err = ...: the result is assigned to err of main, the one variable all
   POST handlers share *)
CreateAssign ==
    \E h \in posting :
        /\ h.pc = "assign"
        /\ mainErr' = h.res
        /\ posting' = (posting \ {h}) \cup {[h EXCEPT !.pc = "test"]}
        /\ UNCHANGED <<store, queue, wpc, batch, clock, faults, nForeign, emitted, deleted,
                       applies, inflight, lastWrite, wnow, nPosts, answered>>

(* if err != nil: the handler answers by what err holds now, which is what
   the last handler to assign it has put there *)
CreateRespond ==
    \E h \in posting :
        /\ h.pc = "test"
        /\ answered' = answered \cup
               {[id |-> h.id, token |-> h.token,
                 code |-> respondCreate(mainErr, CreateRequestOutput(h.id, h.title, h.createdAt,
                                                                     h.token)).code]}
        /\ posting' = posting \ {h}
        /\ UNCHANGED <<store, queue, wpc, batch, clock, faults, nForeign, emitted, deleted,
                       applies, inflight, lastWrite, wnow, mainErr, nPosts>>

----------------------------------------------------------------------------
(* GET /requests/{id}?t=TOKEN *)

(* The attributes that hold a list (AttributeValueMemberL); all others of an
   item hold a string (AttributeValueMemberS) *)
ListAttrs == {"statusHistory"}

(* getStringAttr(item, key): the value and true for an attribute that is
   present and a string, "" and false otherwise *)
getStringAttr(item, key) ==
    IF key \in DOMAIN item /\ key \notin ListAttrs
    THEN [v |-> item[key], ok |-> TRUE]
    ELSE [v |-> "", ok |-> FALSE]

(* A handler without the check for an empty GetItem result *)
readRequestNoEmptyCheck(table, id, t, getFails) ==
    IF t = "" THEN HttpError("token required", 400)
    ELSE IF getFails THEN HttpError("failed to read", 500)
    ELSE LET item == IF PKOf(id) \in DOMAIN table THEN table[PKOf(id)] ELSE <<>>
             stored == getStringAttr(item, "requesterToken")
         IN  IF ~stored.ok THEN HttpError("corrupt item", 500)
             ELSE IF stored.v # t THEN HttpError("forbidden", 403)
             ELSE HttpOk([requestId |-> id,
                          title |-> getStringAttr(item, "title").v,
                          status |-> getStringAttr(item, "status").v,
                          createdAt |-> getStringAttr(item, "createdAt").v])

(* A handler that returns the request to any caller who sends some token *)
readRequestUngated(table, id, t, getFails) ==
    IF t = "" THEN HttpError("token required", 400)
    ELSE IF getFails THEN HttpError("failed to read", 500)
    ELSE IF PKOf(id) \notin DOMAIN table THEN HttpError("not found", 404)
    ELSE LET item == table[PKOf(id)]
         IN  HttpOk([requestId |-> id,
                     title |-> getStringAttr(item, "title").v,
                     status |-> getStringAttr(item, "status").v,
                     createdAt |-> getStringAttr(item, "createdAt").v])

(* The response of the handler for path id and query token t, the table
   being table; getFails: GetItem returns an error. *)
readRequest(table, id, t, getFails) ==
    IF t = "" THEN HttpError("token required", 400)
    ELSE IF getFails THEN HttpError("failed to read", 500)
    ELSE IF PKOf(id) \notin DOMAIN table THEN HttpError("not found", 404)
    ELSE LET item == table[PKOf(id)]
             stored == getStringAttr(item, "requesterToken")
         IN  IF ~stored.ok THEN HttpError("corrupt item", 500)
             ELSE IF stored.v # t THEN HttpError("forbidden", 403)
             ELSE HttpOk([requestId |-> id,
                          title |-> getStringAttr(item, "title").v,
                          status |-> getStringAttr(item, "status").v,
                          createdAt |-> getStringAttr(item, "createdAt").v])

PathIds == ExistingIds \cup {UnknownId}

QueryTokens == {"", "k0"} \cup {store[pk].requesterToken : pk \in DOMAIN store}

(* The tokens callers send: none, one they made up, one the API returned *)
SentTokens == {"", "k0"} \cup KnownTokens

(* The handler writes nothing: the table and the queue are as before *)
GetRequest ==
    \E id \in RequestPaths, t \in SentTokens :
        /\ t = "" => id = UnknownId
        /\ readRequest(store, id, t, FALSE).code \in {200, 400, 403, 404}
        /\ UNCHANGED vars

----------------------------------------------------------------------------
(* PATCH /requests/{id}/status *)

Authorizations == {"", "Bearer dev-admin-token"}

(* A handler whose secret is unset and that has no default for it and no
   scheme prefix: the header it expects is the empty one *)
ExpectedAuthorizationUnset == ""

(* "Bearer " + expected, expected being "dev-admin-token" *)
ExpectedAuthorization == "Bearer dev-admin-token"

(* The status values sent: two of the enum, and one outside it *)
PatchStatuses == {"IN_PROGRESS", "DONE", "BOGUS"}

(* An update that sets the timestamp and leaves status as it is *)
UpdateStatusItemTimeOnly(item, s, t) == SetAttrs(item, [statusUpdatedAt |-> t])

(* An update that also stamps the item as notified *)
UpdateStatusItemMarksNotified(item, s, t) ==
    SetAttrs(item, [status |-> s, statusUpdatedAt |-> t, notifiedAt |-> t])

(* An update that leaves a status that was set once as it is: the first
   writer wins *)
UpdateStatusItemFirstWins(item, s, t) ==
    IF "statusUpdatedAt" \in DOMAIN item THEN item
    ELSE SetAttrs(item, [status |-> s, statusUpdatedAt |-> t])

(* A write that puts a whole new item under the key instead of updating two
   attributes of the stored one *)
UpdateStatusItemPuts(item, s, t) == [PK |-> item.PK, status |-> s, statusUpdatedAt |-> t]

(* SET #st = :s, statusUpdatedAt = :t *)
UpdateStatusItem(item, s, t) == SetAttrs(item, [status |-> s, statusUpdatedAt |-> t])

(* sqsClient.SendMessage: the queue with a new visible message added *)
SendMessage(q, mid, body) ==
    q \cup {[mid |-> mid, body |-> body, vis |-> TRUE, owner |-> "none"]}

(* The event of a handler that has read the time changedAt and drawn the
   identifier eventID for path id and status *)
StatusChangedEvent(id, status, changedAt, eventID) ==
    [EventID |-> eventID, RequestID |-> id, NewStatus |-> status, ChangedAt |-> changedAt]

(* The checks before any call: the Authorization header, the body, the
   status.  The response of the check that fails, or code 0 when none does. *)
checkPatch(in) ==
    IF in.auth # ExpectedAuthorization THEN HttpError("unauthorized", 401)
    ELSE IF in.badJson THEN HttpError("bad json", 400)
    ELSE IF in.status \notin Statuses THEN HttpError("invalid status", 400)
    ELSE [code |-> 0, msg |-> "", out |-> <<>>]

(* ddb.UpdateItem with ConditionExpression attribute_exists(PK); storeFails:
   the call fails with another error.  The table afterwards and the error. *)
updateStatus(table, id, s, t, storeFails) ==
    IF storeFails THEN [table |-> table, err |-> "error"]
    ELSE IF PKOf(id) \notin DOMAIN table
    THEN [table |-> table, err |-> "ConditionalCheckFailedException"]
    ELSE [table |-> ReplaceItem(table, PKOf(id), UpdateStatusItem(table[PKOf(id)], s, t)),
          err |-> "nil"]

(* A handler that builds and sends the event whatever UpdateItem returned *)
AfterUpdateItemAlwaysSends(err) == "send"

(* The handler's way after UpdateItem returned: 404 for the failed
   condition, 500 for another error, on to SendMessage otherwise *)
AfterUpdateItem(err) ==
    IF err = "nil" THEN "send"
    ELSE IF err = "ConditionalCheckFailedException" THEN "notfound"
    ELSE "failed"

(* A handler that, when SendMessage fails, writes the request back to
   PENDING *)
AfterSendFailureRollback(table, id) ==
    IF PKOf(id) \in DOMAIN table
    THEN ReplaceItem(table, PKOf(id), SetAttrs(table[PKOf(id)], [status |-> "PENDING"]))
    ELSE table

(* The table after SendMessage failed for the event of request id: the
   handler returns, nothing is written *)
AfterSendFailure(table, id) == table

(* The handler from SendMessage on, for the event ev; sendFails: SendMessage
   returns an error.  The table and the queue afterwards, the response, and
   the event with whether it was sent. *)
sendEvent(table, q, ev, sendFails) ==
    IF sendFails
    THEN [table |-> AfterSendFailure(table, ev.RequestID), queue |-> q,
          resp |-> HttpError("failed to enqueue", 500),
          events |-> {[ev |-> ev, sent |-> FALSE]}]
    ELSE [table |-> table, queue |-> SendMessage(q, ev.EventID, Marshal(ev)),
          resp |-> HttpOk([requestId |-> ev.RequestID, newStatus |-> ev.NewStatus,
                           changedAt |-> ev.ChangedAt, eventId |-> ev.EventID]),
          events |-> {[ev |-> ev, sent |-> TRUE]}]

(* The handler run from its first line to its last with nothing in between,
   for path id, the Authorization header in.auth, the body (in.badJson,
   in.status), the time changedAt, the identifier eventID drawn from
   uuid.NewString(), and outcome: "storeFails" (UpdateItem returns an error
   that is no ConditionalCheckFailedException), "sendFails" (SendMessage
   returns an error) or "ok".  The result is the table and the queue
   afterwards, the response, and the events built (none or one). *)
patchStatus(table, q, in, changedAt, eventID, outcome) ==
    LET same(resp) == [table |-> table, queue |-> q, resp |-> resp, events |-> {}]
        u == updateStatus(table, in.id, in.status, changedAt, outcome = "storeFails")
        way == AfterUpdateItem(u.err)
    IN  IF checkPatch(in).code # 0 THEN same(checkPatch(in))
        ELSE IF way = "notfound" THEN same(HttpError("not found", 404))
        ELSE IF way = "failed" THEN same(HttpError("failed to update", 500))
        ELSE sendEvent(u.table, q, StatusChangedEvent(in.id, in.status, changedAt, eventID),
                       outcome = "sendFails")

PatchInput(id, auth, badJson, status) ==
    [id |-> id, auth |-> auth, badJson |-> badJson, status |-> status]

(* Requests of every kind: each rejection once per path, a valid request
   for every path, and every status for the paths that exist *)
PatchInputs ==
    {PatchInput(id, auth, FALSE, "DONE") : id \in RequestPaths, auth \in Authorizations}
    \cup {PatchInput(UnknownId, ExpectedAuthorization, TRUE, "")}
    \cup {PatchInput(id, ExpectedAuthorization, FALSE, s) : id \in KnownIds, s \in PatchStatuses}

PatchOutcomes == {"ok", "storeFails", "sendFails"}

(* The identifiers of the events built so far and of the handlers under way *)
UsedEventIds == {e.ev.EventID : e \in emitted} \cup {h.ev.EventID : h \in inflight}

(* An identifier computed from nothing that differs between two calls *)
NewEventIDConstant == EventIdPool[1]

(* eventID := uuid.NewString(): an identifier no other event or handler has *)
NewEventID ==
    LET free == {i \in 1..Len(EventIdPool) : EventIdPool[i] \notin UsedEventIds}
    IN  IF free = {} THEN UnknownId
        ELSE EventIdPool[CHOOSE i \in free : \A j \in free : i <= j]

(* The handler up to its first call (lines 264-287): a request that fails a
   check is answered at once; otherwise the handler reads the time, draws the
   event's identifier and is at UpdateItem. *)
PatchBegin ==
    \E in \in PatchInputs, now \in Nows :
        IF checkPatch(in).code # 0
        THEN now = clock /\ UNCHANGED vars
        ELSE /\ CanSend
             /\ inflight' = inflight \cup
                    {[ev |-> StatusChangedEvent(in.id, in.status, FormatRFC3339(now), NewEventID),
                      pc |-> "update"]}
             /\ clock' = now
             /\ UNCHANGED <<store, queue, wpc, batch, faults, nForeign, emitted, deleted,
                            applies, lastWrite, wnow, postVars>>

(* UpdateItem of a handler (lines 290-313): on an error the handler answers
   404 or 500 and is done; otherwise it is at SendMessage. *)
PatchUpdate ==
    \E h \in inflight, storeFails \in BOOLEAN :
        LET u == updateStatus(store, h.ev.RequestID, h.ev.NewStatus, h.ev.ChangedAt, storeFails)
        IN  /\ h.pc = "update"
            /\ storeFails => CanFail
            /\ faults' = Failing(storeFails, "storeFails", h.ev.RequestID)
            /\ store' = u.table
            /\ lastWrite' = IF u.err = "nil"
                            THEN Record(lastWrite, h.ev.RequestID,
                                        [status |-> h.ev.NewStatus, statusUpdatedAt |-> h.ev.ChangedAt])
                            ELSE lastWrite
            /\ inflight' = IF AfterUpdateItem(u.err) = "send"
                           THEN (inflight \ {h}) \cup {[h EXCEPT !.pc = "send"]}
                           ELSE inflight \ {h}
            /\ UNCHANGED <<queue, wpc, batch, clock, nForeign, emitted, deleted, applies,
                           wnow, postVars>>

(* SendMessage of a handler and its response (lines 316-339) *)
PatchSend ==
    \E h \in inflight, sendFails \in BOOLEAN :
        LET r == sendEvent(store, queue, h.ev, sendFails)
        IN  /\ h.pc = "send"
            /\ sendFails => CanFail
            /\ faults' = Failing(sendFails, "sendFails", h.ev.RequestID)
            /\ store' = r.table
            /\ queue' = r.queue
            /\ emitted' = emitted \cup r.events
            /\ inflight' = inflight \ {h}
            /\ UNCHANGED <<wpc, batch, clock, nForeign, deleted, applies, lastWrite, wnow, postVars>>

----------------------------------------------------------------------------
(* Other producers of the queue.  SQS accepts any text as a message body;  *)
(* the bodies below are the shapes a consumer has to cope with: text that   *)
(* is no JSON object, the JSON text null, a known key (in lower case)       *)
(* holding a number, an object without eventId and with a null changedAt,   *)
(* and a complete event with keys in other spellings and an additional      *)
(* field.                                                                   *)
(* A request identifier in such a body is one that a POST returned or one   *)
(* no POST returned.                                                        *)

ForeignBodies ==
    {[kind |-> "text"], [kind |-> "null"]}
    \cup {[kind |-> "object",
           fields |-> <<Member(<<"e", "v", "e", "n", "t", "i", "d">>, JNum("7")),
                        Member(TagChars["requestId"], JStr(id)),
                        Member(TagChars["newStatus"], JStr("DONE")),
                        Member(TagChars["changedAt"], JStr("T0"))>>]
            : id \in KnownIds}
    \cup {[kind |-> "object",
           fields |-> <<Member(<<"R", "e", "q", "u", "e", "s", "t", "I", "D">>, JStr(id)),
                        Member(TagChars["newStatus"], JStr("DONE")),
                        Member(TagChars["changedAt"], JNull)>>] : id \in KnownIds}
    \cup {[kind |-> "object",
           fields |-> <<Member(<<"E", "v", "e", "n", "t", "I", "D">>, JStr("x1")),
                        Member(<<"r", "e", "q", "u", "e", "U+017F", "t", "I", "d">>, JStr(id)),
                        Member(TagChars["newStatus"], JStr("DONE")),
                        Member(TagChars["changedAt"], JStr("T0")),
                        Member(<<"n", "o", "t", "e">>, JStr("extra"))>>] : id \in RequestPaths}

InjectMessage ==
    \E body \in ForeignBodies :
        /\ CanSend /\ nForeign < MaxForeign
        /\ nForeign' = nForeign + 1
        /\ queue' = SendMessage(queue, ForeignMidPool[nForeign + 1], body)
        /\ UNCHANGED <<store, wpc, batch, clock, faults, emitted, deleted, applies, inflight, lastWrite, wnow, postVars>>

----------------------------------------------------------------------------
(* SQS *)

Visible == {m \in queue : m.vis}

Held(mid) == \E w \in Workers : \E i \in 1..Len(batch[w]) : batch[w][i].mid = mid

(* All orders in which the messages of S can be returned *)
OrdersOf(S) ==
    {s \in [1..Cardinality(S) -> S] : \A i, j \in 1..Cardinality(S) : i # j => s[i] # s[j]}

(* ReceiveMessage: the messages of S become invisible, w holds their latest
   receipt handles *)
Receipt(q, S, w) ==
    {IF m \in S THEN [m EXCEPT !.vis = FALSE, !.owner = w] ELSE m : m \in q}

(* The queues DeleteMessage can leave when w passes its receipt handle for
   message mid: the message is removed when the handle is the latest one; with
   an older handle the call succeeds and the message may or may not be
   removed. *)
DeleteMessage(q, mid, w) ==
    LET ms == {m \in q : m.mid = mid}
    IN  IF ms = {} THEN {q}
        ELSE IF \A m \in ms : m.owner = w THEN {q \ ms}
        ELSE {q, q \ ms}

(* A worker is done with message mid without having deleted it: its receipt
   handle is never used again *)
Forget(q, mid, w) ==
    {IF m.mid = mid /\ m.owner = w THEN [m EXCEPT !.owner = "none"] ELSE m : m \in q}

(* Visibility timeout (VisibilityTimeout: 30) of an in-flight message elapses.
   While a worker still holds the message in its batch this is the worker
   being slower than the timeout, which is counted among the failures. *)
Expire ==
    \E m \in queue :
        /\ ~m.vis
        /\ Held(m.mid) => CanFail
        /\ faults' = Failing(Held(m.mid), "timeout", m.mid)
        /\ queue' = (queue \ {m}) \cup {[m EXCEPT !.vis = TRUE]}
        /\ UNCHANGED <<store, wpc, batch, clock, nForeign, emitted, deleted, applies, inflight, lastWrite, wnow, postVars>>

----------------------------------------------------------------------------
(* Worker: applyStatusEvent *)

(* historyEntry *)
HistoryEntry(ev, now) ==
    [eventId |-> ev.EventID, newStatus |-> ev.NewStatus,
     changedAt |-> ev.ChangedAt, handledAt |-> now]

(* A condition that lets through the first event of a request only:
   attribute_exists(PK) AND attribute_not_exists(lastEventId) *)
ApplyConditionFirstOnly(table, pk, ev) ==
    /\ pk \in DOMAIN table
    /\ "lastEventId" \notin DOMAIN table[pk]

(* A condition that checks the existence of the item only *)
ApplyConditionExistsOnly(table, pk, ev) == pk \in DOMAIN table

(* ConditionExpression:
   attribute_exists(PK) AND (attribute_not_exists(lastEventId) OR lastEventId <> :eid) *)
ApplyCondition(table, pk, ev) ==
    /\ pk \in DOMAIN table
    /\ \/ "lastEventId" \notin DOMAIN table[pk]
       \/ table[pk].lastEventId # ev.EventID

(* An update that appends the entry and does not record the event as the
   last one applied *)
ApplyUpdateNoLastEvent(item, ev, now) ==
    SetAttrs(item, [notifiedAt |-> now,
                    statusHistory |-> HistoryOf(item) \o <<HistoryEntry(ev, now)>>])

(* An update that also copies the event's status into the item *)
ApplyUpdateSetsStatus(item, ev, now) ==
    SetAttrs(item, [notifiedAt |-> now, lastEventId |-> ev.EventID, status |-> ev.NewStatus,
                    statusHistory |-> HistoryOf(item) \o <<HistoryEntry(ev, now)>>])

(* An update that sets statusHistory to the new entry instead of appending *)
ApplyUpdateOverwrites(item, ev, now) ==
    SetAttrs(item, [notifiedAt |-> now, lastEventId |-> ev.EventID,
                    statusHistory |-> <<HistoryEntry(ev, now)>>])

(* UpdateExpression:
   SET notifiedAt = :n, lastEventId = :eid,
       statusHistory = list_append(if_not_exists(statusHistory, :empty), :h) *)
ApplyUpdate(item, ev, now) ==
    SetAttrs(item, [notifiedAt |-> now, lastEventId |-> ev.EventID,
                    statusHistory |-> HistoryOf(item) \o <<HistoryEntry(ev, now)>>])

(* An applyStatusEvent that returns nil for every error of UpdateItem *)
applyStatusEventSwallows(table, ev, now, storeFails) ==
    LET pk == PKOf(ev.RequestID)
    IN  IF ~storeFails /\ ApplyCondition(table, pk, ev)
        THEN [table |-> ReplaceItem(table, pk, ApplyUpdate(table[pk], ev, now)), err |-> FALSE]
        ELSE [table |-> table, err |-> FALSE]

(* An applyStatusEvent that returns the ConditionalCheckFailedException to its
   caller like any other error *)
applyStatusEventStrict(table, ev, now, storeFails) ==
    LET pk == PKOf(ev.RequestID)
    IN  IF storeFails THEN [table |-> table, err |-> TRUE]
        ELSE IF ApplyCondition(table, pk, ev)
        THEN [table |-> ReplaceItem(table, pk, ApplyUpdate(table[pk], ev, now)), err |-> FALSE]
        ELSE [table |-> table, err |-> TRUE]

(* applyStatusEvent(ctx, ddb, ev) at time now; storeFails: UpdateItem fails
   with an error that is no ConditionalCheckFailedException.  The result is
   the table afterwards and whether an error is returned. *)
applyStatusEvent(table, ev, now, storeFails) ==
    LET pk == PKOf(ev.RequestID)
    IN  IF storeFails THEN [table |-> table, err |-> TRUE]
        ELSE IF ApplyCondition(table, pk, ev)
        THEN [table |-> ReplaceItem(table, pk, ApplyUpdate(table[pk], ev, now)), err |-> FALSE]
        ELSE [table |-> table, err |-> FALSE]

(* m.Body and m.ReceiptHandle of a message returned without one (nil) *)
NoBody == [kind |-> "nil"]
NoHandle == "nil"

(* if m.Body == nil || m.ReceiptHandle == nil { continue } *)
AfterGuard(m) == IF m.body = NoBody \/ m.handle = NoHandle THEN "skip" ELSE "parse"

(* A worker that continues without deleting a body that does not decode *)
AfterUnmarshalSkips(err) == IF err THEN "skip" ELSE "apply"

(* The worker's step after json.Unmarshal returned: delete the message and
   continue on an error, apply the event otherwise *)
AfterUnmarshal(err) == IF err THEN "discard" ELSE "apply"

(* A worker that deletes the message whatever applyStatusEvent returned *)
AfterApplyAlwaysAcks(err) == "ack"

(* The worker's step after applyStatusEvent returned: continue without
   deleting on an error, delete the message otherwise *)
AfterApply(err) == IF err THEN "skip" ELSE "ack"

----------------------------------------------------------------------------
(* Worker loop *)

(* A loop that ends once a message is done with: return instead of continue *)
NextMessageReturns(w) ==
    /\ batch' = [batch EXCEPT ![w] = Tail(batch[w])]
    /\ wpc' = [wpc EXCEPT ![w] = "exit"]

(* Position after the current message of the batch is done with *)
NextMessage(w) ==
    /\ batch' = [batch EXCEPT ![w] = Tail(batch[w])]
    /\ wpc' = [wpc EXCEPT ![w] = IF Len(batch[w]) > 1 THEN "handle" ELSE "poll"]

(* ReceiveMessage returned at least one message *)
Receive(w) ==
    /\ wpc[w] = "poll"
    /\ \E S \in (SUBSET Visible) \ {{}} :
        /\ Cardinality(S) <= MaxNumberOfMessages
        /\ \E order \in OrdersOf(S) :
            batch' = [batch EXCEPT ![w] =
                        [i \in 1..Cardinality(S) |->
                            [mid |-> order[i].mid, body |-> order[i].body, handle |-> w]]]
        /\ queue' = Receipt(queue, S, w)
    /\ wpc' = [wpc EXCEPT ![w] = "handle"]
    /\ UNCHANGED <<store, clock, faults, nForeign, emitted, deleted, applies, inflight,
                   lastWrite, wnow, postVars>>

(* ReceiveMessage returned an error (sleep, continue) or no message (continue) *)
ReceiveNothing(w) ==
    /\ wpc[w] = "poll"
    /\ UNCHANGED vars

(* The DeleteMessage call of worker w for the message at the head of its
   batch, then the next message *)
DeleteAndContinue(w) ==
    LET m == Head(batch[w])
    IN  /\ \E deleteFails \in BOOLEAN :
            /\ deleteFails => CanFail
            /\ faults' = Failing(deleteFails, "delete", m.mid)
            /\ \E q \in (IF deleteFails THEN {queue} ELSE DeleteMessage(queue, m.mid, w)) :
                /\ queue' = Forget(q, m.mid, w)
                /\ deleted' = deleted \cup {[mid |-> x.mid, body |-> x.body] : x \in queue \ q}
        /\ NextMessage(w)

(* One message of the batch: a message without a body or a receipt handle
   is skipped (ReceiveMessage returns every message with both, so that no
   message of a batch is one); then json.Unmarshal, then DeleteMessage for
   a body that does not decode; for one that does, the worker enters
   applyStatusEvent and reads the time. *)
Handle(w) ==
    /\ wpc[w] = "handle"
    /\ LET m == Head(batch[w])
           u == Unmarshal(m.body)
       IN  CASE AfterGuard(m) = "skip" ->
                  /\ NextMessage(w)
                  /\ queue' = Forget(queue, m.mid, w)
                  /\ UNCHANGED <<store, clock, faults, nForeign, emitted, deleted, applies,
                                 inflight, lastWrite, wnow, postVars>>
             [] AfterGuard(m) = "parse" /\ AfterUnmarshal(u.err) = "discard" ->
                  /\ DeleteAndContinue(w)
                  /\ UNCHANGED <<store, clock, nForeign, emitted, applies, inflight, lastWrite,
                                 wnow, postVars>>
             [] AfterGuard(m) = "parse" /\ AfterUnmarshal(u.err) = "apply" ->
                  \E now \in Nows :
                    /\ clock' = now
                    /\ wnow' = [wnow EXCEPT ![w] = FormatRFC3339(now)]
                    /\ wpc' = [wpc EXCEPT ![w] = "apply"]
                    /\ UNCHANGED <<store, queue, batch, faults, nForeign, emitted, deleted,
                                   applies, inflight, lastWrite, postVars>>
             [] OTHER ->
                  /\ NextMessage(w)
                  /\ queue' = Forget(queue, m.mid, w)
                  /\ UNCHANGED <<store, clock, faults, nForeign, emitted, deleted, applies,
                                 inflight, lastWrite, wnow, postVars>>

(* The UpdateItem of applyStatusEvent, with the time read on entry, and the
   worker's step on its return *)
Apply(w) ==
    /\ wpc[w] = "apply"
    /\ LET m == Head(batch[w])
           u == Unmarshal(m.body)
       IN  \E storeFails \in BOOLEAN :
             LET r == applyStatusEvent(store, u.ev, wnow[w], storeFails)
             IN  /\ storeFails => CanFail
                 /\ faults' = Failing(storeFails, "apply", m.mid)
                 /\ store' = r.table
                 /\ wnow' = [wnow EXCEPT ![w] = ""]
                 /\ applies' = IF r.err THEN applies
                               ELSE applies (+) SetToBag({<<u.ev.RequestID, u.ev.EventID>>})
                 /\ IF AfterApply(r.err) = "ack"
                    THEN /\ wpc' = [wpc EXCEPT ![w] = "ack"]
                         /\ UNCHANGED <<batch, queue>>
                    ELSE /\ NextMessage(w)
                         /\ queue' = Forget(queue, m.mid, w)
                 /\ UNCHANGED <<clock, nForeign, emitted, inflight, lastWrite, deleted,
                                postVars>>

(* DeleteMessage after applyStatusEvent returned nil; a failure is logged *)
Ack(w) ==
    /\ wpc[w] = "ack"
    /\ DeleteAndContinue(w)
    /\ UNCHANGED <<store, clock, nForeign, emitted, applies, inflight, lastWrite, wnow, postVars>>

WorkerStep(w) == Receive(w) \/ Handle(w) \/ Apply(w) \/ Ack(w)

----------------------------------------------------------------------------

Next ==
    \/ CreateBegin
    \/ CreatePut
    \/ CreateAssign
    \/ CreateRespond
    \/ GetRequest
    \/ PatchBegin
    \/ PatchUpdate
    \/ PatchSend
    \/ InjectMessage
    \/ Expire
    \/ \E w \in Workers : Receive(w)
    \/ \E w \in Workers : ReceiveNothing(w)
    \/ \E w \in Workers : Handle(w)
    \/ \E w \in Workers : Apply(w)
    \/ \E w \in Workers : Ack(w)

Spec == Init /\ [][Next]_vars

(* The worker loop never stops by itself, and SQS makes an unacknowledged
   message visible again once its timeout has elapsed. *)
Fairness ==
    /\ \A w \in Workers : WF_vars(WorkerStep(w))
    /\ WF_vars(Expire)

(* The calls made and the failures suffered so far *)
Calls == nPosts + Sends + Cardinality(inflight) + BagCardinality(faults)

(* The steps that keep the calls and failures together within MaxLiveCalls
   and the clock within MaxLiveClock: the behaviours the properties of
   eventual processing are checked for.  The steps left out of LiveBound add
   no call and no failure and do not read the clock. *)
LiveBound == Calls' <= MaxLiveCalls /\ clock' <= MaxLiveClock

NextLive ==
    \/ CreateBegin /\ LiveBound
    \/ CreatePut /\ LiveBound
    \/ CreateAssign
    \/ CreateRespond
    \/ GetRequest
    \/ PatchBegin /\ LiveBound
    \/ PatchUpdate /\ LiveBound
    \/ PatchSend /\ LiveBound
    \/ InjectMessage /\ LiveBound
    \/ Expire /\ LiveBound
    \/ \E w \in Workers : Receive(w)
    \/ \E w \in Workers : ReceiveNothing(w)
    \/ \E w \in Workers : Handle(w) /\ LiveBound
    \/ \E w \in Workers : Apply(w) /\ LiveBound
    \/ \E w \in Workers : Ack(w) /\ LiveBound

FairSpec == Init /\ [][NextLive]_vars /\ Fairness

----------------------------------------------------------------------------
(* Notions the properties below are stated in *)

History(id) == HistoryOf(store[PKOf(id)])

Exists(id) == PKOf(id) \in DOMAIN store

(* Number of entries of history h for event eid *)
EntriesFor(h, eid) == Cardinality({i \in 1..Len(h) : h[i].eventId = eid})

IsPrefix(s, t) == Len(s) <= Len(t) /\ \A i \in 1..Len(s) : s[i] = t[i]

(* Every nil return of applyStatusEvent for request k[1] was for event k[2] *)
OnlyEventApplied(k) == \A k2 \in BagToSet(applies) : k2[1] = k[1] => k2 = k

(* C1: when applyStatusEvent has been applied to an existing request for one
   event only, however many times (N >= 1 deliveries of the same message),
   the request's statusHistory has exactly one entry, that event's;
   lastEventId is that event; and notifiedAt was written once, with the
   entry (it is the entry's handledAt). *)
C1_IdempotentApplication ==
    \A k \in BagToSet(applies) :
        (Exists(k[1]) /\ OnlyEventApplied(k)) =>
            LET item == store[PKOf(k[1])]
            IN  /\ Len(HistoryOf(item)) = 1
                /\ HistoryOf(item)[1].eventId = k[2]
                /\ item.lastEventId = k[2]
                /\ item.notifiedAt = HistoryOf(item)[1].handledAt

(* The same event applied twice to an existing request, and no other *)
C1_Witness ==
    \E k \in BagToSet(applies) :
        Exists(k[1]) /\ OnlyEventApplied(k) /\ CopiesIn(k, applies) >= 2

(* C2: no eventId occurs more than once in a request's statusHistory. *)
C2_NoDoubleAppend ==
    \A pk \in DOMAIN store :
        \A i, j \in 1..Len(HistoryOf(store[pk])) :
            i # j => HistoryOf(store[pk])[i].eventId # HistoryOf(store[pk])[j].eventId


----------------------------------------------------------------------------
(* Messages and steps *)

EventIds == PoolSet(EventIdPool)

ForeignMids == PoolSet(ForeignMidPool)

InQueue(mid) == \E m \in queue : m.mid = mid

IsDeleted(mid) == \E d \in deleted : d.mid = mid

(* The message of event eid was sent by the API *)
WasSent(eid) == \E e \in emitted : e.sent /\ e.ev.EventID = eid

Failed(kind, what) == BagIn(<<kind, what>>, faults)

(* The failure <<kind, what>> happens in this step *)
Fails(kind, what) == CopiesIn(<<kind, what>>, faults') > CopiesIn(<<kind, what>>, faults)

(* Some worker takes a step of its loop *)
WorkerMoves == wpc' # wpc \/ batch' # batch

(* Worker w finishes the handling of its current message: it discards or
   skips it after parsing, or it leaves applyStatusEvent.  The step from
   parsing into applyStatusEvent, which reads the clock, is not the end. *)
Handles(w) ==
    \/ /\ wpc[w] = "handle"
       /\ wpc'[w] # "apply"
       /\ (wpc'[w] # wpc[w] \/ batch'[w] # batch[w])
    \/ wpc[w] = "apply" /\ wpc'[w] # "apply"

(* A body json.Unmarshal rejects *)
Malformed(body) == Unmarshal(body).err

(* A body in which a required field is absent or no string *)
Defective(body) ==
    \/ body.kind # "object"
    \/ \E f \in EventFields :
        \/ \A i \in 1..Len(body.fields) : FieldOf(body.fields[i].k) # f
        \/ \E i \in 1..Len(body.fields) :
            FieldOf(body.fields[i].k) = f /\ body.fields[i].v.t # "string"

----------------------------------------------------------------------------
(* C3: a store error in applyStatusEvent writes nothing and leaves the
   message in the queue, not deleted and not on its way to DeleteMessage; the
   message is then redelivered and eventually deleted with its event in the
   request's history (a state in which this is so for every such message
   comes again and again, and what it says of a message stays true); and
   when the message suffered no other failure (no failed delete, no timeout
   while held), it was applied exactly once and the history holds exactly one
   entry for the event. *)
C3_StoreErrorStep ==
    \A mid \in EventIds \cup ForeignMids :
        Fails("apply", mid) =>
            /\ store' = store
            /\ deleted' = deleted
            /\ InQueue(mid) /\ InQueue(mid)'
            /\ \A w \in Workers : wpc'[w] = "ack" => wpc[w] = "ack"

C3_OneEntry ==
    \A e \in emitted :
        LET eid == e.ev.EventID
        IN  (/\ e.sent /\ Failed("apply", eid) /\ IsDeleted(eid)
             /\ ~Failed("delete", eid) /\ ~Failed("timeout", eid)) =>
                /\ EntriesFor(History(e.ev.RequestID), eid) = 1
                /\ CopiesIn(<<e.ev.RequestID, eid>>, applies) = 1

C3_RedeliveryAfterStoreError ==
    /\ [][C3_StoreErrorStep]_vars
    /\ []C3_OneEntry
    /\ []<>(\A eid \in EventIds :
                (WasSent(eid) /\ Failed("apply", eid)) =>
                    (IsDeleted(eid)
                     /\ \E pk \in DOMAIN store : EntriesFor(HistoryOf(store[pk]), eid) >= 1))

C3_Witness ==
    \E e \in emitted :
        /\ e.sent /\ Failed("apply", e.ev.EventID) /\ IsDeleted(e.ev.EventID)
        /\ EntriesFor(History(e.ev.RequestID), e.ev.EventID) = 1

(* C4: every message deleted by a worker whose body decodes and references
   an existing request has its eventId in that request's statusHistory. *)
C4_AckOnlyAfterApply ==
    \A d \in deleted :
        LET u == Unmarshal(d.body)
        IN  (~u.err /\ Exists(u.ev.RequestID)) =>
                EntriesFor(History(u.ev.RequestID), u.ev.EventID) >= 1

C4_Witness ==
    \E d \in deleted : ~Unmarshal(d.body).err /\ Exists(Unmarshal(d.body).ev.RequestID)

(* C5: handling a message whose body is no StatusChangedEvent JSON writes
   nothing to the store; the worker always issues the delete, so such a
   message is left in flight by a worker only when that delete failed; once
   deleted it is not in the queue again; and it is eventually deleted, the
   worker loop going on: again and again the queue holds no such message.
   (A body that is the JSON literal null is accepted by json.Unmarshal; the
   worker applies its zero event, which names no record, and writes nothing
   either.) *)
C5_DiscardStep ==
    \A w \in Workers :
        /\ (Handles(w) /\ Malformed(Head(batch[w]).body)) => store' = store /\ wpc'[w] # "ack"
        /\ (Handles(w) /\ Head(batch[w]).body.kind = "null") =>
            /\ ~Malformed(Head(batch[w]).body)
            /\ store' = store

C5_NoRetry ==
    /\ \A m \in queue :
        (Malformed(m.body) /\ ~m.vis /\ ~Held(m.mid)) => Failed("delete", m.mid)
    /\ \A d \in deleted : ~InQueue(d.mid)

C5_MalformedDiscarded ==
    /\ [][C5_DiscardStep]_vars
    /\ []C5_NoRetry
    /\ []<>(\A m \in queue : ~Malformed(m.body))

C5_Witness == \E d \in deleted : Malformed(d.body)

(* C6: handling a message in which a required field is absent or of the
   wrong type changes no request record. *)
C6_DefectiveStep ==
    \A w \in Workers : (Handles(w) /\ Defective(Head(batch[w]).body)) => store' = store

C6_DefectiveNeverApplied == [][C6_DefectiveStep]_vars

(* C7: for a request with a single transition, to IN_PROGRESS, whose event
   was sent, and no message from another producer: once the message is
   deleted the request has status IN_PROGRESS, a statusHistory of exactly
   that event's entry, and notifiedAt set; and every sent event's message is
   eventually deleted (again and again every event sent so far has been
   deleted, and a deleted message stays deleted). *)
RoundTrip(e) ==
    /\ e.sent
    /\ e.ev.NewStatus = "IN_PROGRESS"
    /\ \A x \in emitted : x.ev.RequestID = e.ev.RequestID => x = e
    /\ \A h \in inflight : h.ev.RequestID # e.ev.RequestID
    /\ nForeign = 0

C7_Converged ==
    \A e \in emitted :
        (RoundTrip(e) /\ IsDeleted(e.ev.EventID)) =>
            LET item == store[PKOf(e.ev.RequestID)]
            IN  /\ item.status = "IN_PROGRESS"
                /\ Len(HistoryOf(item)) = 1
                /\ HistoryOf(item)[1].eventId = e.ev.EventID
                /\ HistoryOf(item)[1].newStatus = "IN_PROGRESS"
                /\ "notifiedAt" \in DOMAIN item

C7_RoundTrip ==
    /\ []C7_Converged
    /\ []<>(\A eid \in EventIds : WasSent(eid) => IsDeleted(eid))

C7_Witness == \E e \in emitted : RoundTrip(e) /\ IsDeleted(e.ev.EventID)

(* The latest successful UpdateItem of PATCH for the request of event ev is
   the one of the handler of ev *)
IsLastWrite(ev) ==
    /\ ev.RequestID \in DOMAIN lastWrite
    /\ lastWrite[ev.RequestID] = [status |-> ev.NewStatus, statusUpdatedAt |-> ev.ChangedAt]

(* C8: the step in which SendMessage fails after a successful UpdateItem
   leaves the table and the queue as they are (nothing is written back) and
   ends the handler (no second try); a handler run alone answers 500 with the
   new status and statusUpdatedAt in the record and the queue as before;
   while no later transition has written to the request, its status and
   statusUpdatedAt are those of the failed call; and the event of that call
   is never in the queue, never delivered, and never in any statusHistory. *)
C8_SendFailureStep ==
    \A e \in emitted' \ emitted :
        ~e.sent =>
            /\ queue' = queue
            /\ store' = store
            /\ \A h \in inflight' : h.ev.EventID # e.ev.EventID

C8_KeepsNewValue ==
    \A e \in emitted :
        (~e.sent /\ IsLastWrite(e.ev)) =>
            /\ store[PKOf(e.ev.RequestID)].status = e.ev.NewStatus
            /\ getStringAttr(store[PKOf(e.ev.RequestID)], "statusUpdatedAt").v = e.ev.ChangedAt

C8_SendFailureResponse ==
    \A id \in ExistingIds, s \in Statuses, now \in Nows :
        LET r == patchStatus(store, queue, PatchInput(id, ExpectedAuthorization, FALSE, s),
                             FormatRFC3339(now), "e0", "sendFails")
        IN  /\ r.resp.code = 500
            /\ r.queue = queue
            /\ r.table[PKOf(id)].status = s
            /\ getStringAttr(r.table[PKOf(id)], "statusUpdatedAt").v = FormatRFC3339(now)

C8_LostEvent ==
    \A e \in emitted :
        ~e.sent =>
            /\ ~InQueue(e.ev.EventID) /\ ~IsDeleted(e.ev.EventID) /\ ~Held(e.ev.EventID)
            /\ \A pk \in DOMAIN store : EntriesFor(HistoryOf(store[pk]), e.ev.EventID) = 0

C8_PartialFailureWindow ==
    /\ [][C8_SendFailureStep]_vars
    /\ [](C8_SendFailureResponse /\ C8_KeepsNewValue /\ C8_LostEvent)

C8_Witness ==
    \E e \in emitted :
        /\ ~e.sent /\ IsLastWrite(e.ev)
        /\ store[PKOf(e.ev.RequestID)].status = e.ev.NewStatus
        /\ e.ev.NewStatus # "PENDING"

(* C9: no step of a worker changes the status or statusUpdatedAt of any
   request, whatever event it applies; status changes only in the UpdateItem
   step of a PATCH handler. *)
SameStatus(pk) ==
    /\ pk \in DOMAIN store'
    /\ store'[pk].status = store[pk].status
    /\ getStringAttr(store'[pk], "statusUpdatedAt") = getStringAttr(store[pk], "statusUpdatedAt")

C9_StatusStep ==
    /\ WorkerMoves => \A pk \in DOMAIN store : SameStatus(pk)
    /\ (\E pk \in DOMAIN store : ~SameStatus(pk)) =>
        \E h \in inflight : h.pc = "update" /\ h \notin inflight' /\ lastWrite' # lastWrite

C9_WorkerNeverChangesStatus == [][C9_StatusStep]_vars

(* An applied event whose newStatus is not the request's status *)
C9_Witness ==
    \E pk \in DOMAIN store :
        \E i \in 1..Len(HistoryOf(store[pk])) :
            HistoryOf(store[pk])[i].newStatus # store[pk].status

(* C10: in every step, every request's statusHistory before the step is a
   prefix of its statusHistory after it. *)
C10_AppendStep ==
    \A pk \in DOMAIN store :
        /\ pk \in DOMAIN store'
        /\ IsPrefix(HistoryOf(store[pk]), HistoryOf(store'[pk]))

C10_HistoryAppendOnly == [][C10_AppendStep]_vars

C10_Witness == \E pk \in DOMAIN store : Len(HistoryOf(store[pk])) >= 2

----------------------------------------------------------------------------
(* The attributes written at creation *)
CreationAttrs == {"requesterToken", "createdAt", "title"}

(* C11: every request record keeps, in every step (a read, a transition, a
   worker's application, a create of another request), the requesterToken,
   createdAt and title it has, and each stays present: they are the ones
   written by the create. *)
C11_CreationStep ==
    \A pk \in DOMAIN store :
        /\ pk \in DOMAIN store'
        /\ \A a \in CreationAttrs :
            /\ getStringAttr(store[pk], a).ok
            /\ getStringAttr(store'[pk], a) = getStringAttr(store[pk], a)

C11_CreationAttrsImmutable == [][C11_CreationStep]_vars

(* A request that went through a transition and a worker's application *)
C11_Witness ==
    \E pk \in DOMAIN store :
        /\ getStringAttr(store[pk], "statusUpdatedAt").ok
        /\ Len(HistoryOf(store[pk])) >= 1
        /\ getStringAttr(store[pk], "requesterToken").v = TokenPool[1]

----------------------------------------------------------------------------
(* Tokens a caller can send: every token uuid.NewString() can issue, and one
   it never issues *)
AnyTokens == PoolSet(TokenPool) \cup {"k0"}

(* C12: in every reachable state, for every request record: reading it with
   the token stored at creation returns 200 with the record's current status,
   title and createdAt; reading it with any other non-empty token returns 403;
   reading with an empty token returns 400 whatever the table holds and
   whether or not GetItem would fail; a POST answered 200 whose record is in
   the table issued the token that reads it, and one whose record was just
   stored reads as PENDING; and a step of the GET handler leaves the table
   and the queue as they are. *)
C12_Gate ==
    /\ \A id \in ExistingIds :
        LET item == store[PKOf(id)]
            r == readRequest(store, id, item.requesterToken, FALSE)
        IN  /\ r.code = 200
            /\ r.out.status = item.status
            /\ r.out.requestId = id
            /\ r.out.title = item.title
            /\ r.out.createdAt = item.createdAt
            /\ \A t \in AnyTokens \ {item.requesterToken} :
                readRequest(store, id, t, FALSE).code = 403
    /\ \A id \in PathIds, getFails \in BOOLEAN :
        /\ readRequest(store, id, "", getFails).code = 400
        /\ readRequest(<<>>, id, "", getFails) = readRequest(store, id, "", getFails)
    /\ \A a \in answered :
        (a.code = 200 /\ Exists(a.id)) =>
            readRequest(store, a.id, a.token, FALSE).code = 200

C12_CreatedReadsPending ==
    \A h \in posting :
        (h.pc = "put" /\ ~Exists(h.id) /\ Exists(h.id)') =>
            LET r == readRequest(store', h.id, h.token, FALSE)
            IN  r.code = 200 /\ r.out.status = "PENDING"

C12_GetStep == GetRequest => (store' = store /\ queue' = queue)

C12_TokenGating ==
    /\ []C12_Gate
    /\ [][C12_GetStep]_vars
    /\ [][C12_CreatedReadsPending]_vars

(* A request whose status is no longer PENDING, readable as such *)
C12_Witness ==
    \E id \in ExistingIds :
        /\ store[PKOf(id)].status = "DONE"
        /\ readRequest(store, id, store[PKOf(id)].requesterToken, FALSE).out.status = "DONE"
        /\ readRequest(store, id, "k0", FALSE).code = 403

----------------------------------------------------------------------------
(* Identifiers under which no create has stored a record *)
NeverCreatedIds == (PoolSet(RequestIdPool) \cup {UnknownId}) \ ExistingIds

(* Identifiers no create has returned in a 200 response *)
NeverReturnedIds == (PoolSet(RequestIdPool) \cup {UnknownId}) \ KnownIds

(* The PATCH handler's result for id and status s with the valid credential *)
AdminPatch(id, s, now) ==
    patchStatus(store, queue, PatchInput(id, ExpectedAuthorization, FALSE, s),
                FormatRFC3339(now), NewEventID, "ok")

(* The transition half of C13: 404, nothing written, nothing sent *)
UnknownIdPatchNotFound ==
    \A id \in NeverCreatedIds, s \in Statuses, now \in Nows :
        LET r == AdminPatch(id, s, now)
        IN  r.resp.code = 404 /\ r.table = store /\ r.queue = queue /\ r.events = {}

(* C13 as stated: for every identifier no create has returned, a read with
   any token, the empty one included, returns 404, and so does a transition to
   any of the four status values with the valid credential. *)
C13_UnknownIdAnyToken ==
    /\ \A id \in NeverReturnedIds, t \in AnyTokens \cup {""} :
        readRequest(store, id, t, FALSE).code = 404
    /\ \A id \in NeverReturnedIds, s \in Statuses, now \in Nows :
        AdminPatch(id, s, now).resp.code = 404

(* C13, amended: for every identifier under which no create has stored a
   record, a read with any non-empty token returns 404 (with the empty token
   it returns 400, the token being checked before the store is read), and a
   transition to any of the four status values with the valid credential
   returns 404 and writes and sends nothing. *)
C13_UnknownIdNotFound ==
    /\ \A id \in NeverCreatedIds :
        /\ \A t \in AnyTokens : readRequest(store, id, t, FALSE).code = 404
        /\ readRequest(store, id, "", FALSE).code = 400
    /\ UnknownIdPatchNotFound

(* A request exists, and its token is used with an identifier that does not *)
C13_Witness ==
    /\ ExistingIds # {}
    /\ \E id \in ExistingIds :
        readRequest(store, UnknownId, store[PKOf(id)].requesterToken, FALSE).code = 404
    /\ AdminPatch(UnknownId, "DONE", clock).resp.code = 404

----------------------------------------------------------------------------
(* The four values of the status enum, as the specification lists them *)
EnumValues == {"PENDING", "IN_PROGRESS", "DONE", "REJECTED"}

(* The record of id with its status set to cur, all else as it is *)
WithStatus(id, cur) ==
    ReplaceItem(store, PKOf(id), SetAttrs(store[PKOf(id)], [status |-> cur]))

(* C14: in every reachable state, for every existing request, every current
   status cur and every new status s of the four enum values (cur = s and
   DONE to PENDING included), the PATCH handler with the valid credential
   returns 200, leaves the request with status s and statusUpdatedAt the time
   of the call, and adds exactly one message to the queue, whose body decodes
   to the event of the response: a fresh eventId, the request's id, newStatus
   s and changedAt the time of the call. *)
C14_UnconstrainedTransitions ==
    \A id \in ExistingIds, cur \in EnumValues, s \in EnumValues, now \in Nows :
        LET eid == NewEventID
            r == patchStatus(WithStatus(id, cur), queue,
                             PatchInput(id, ExpectedAuthorization, FALSE, s),
                             FormatRFC3339(now), eid, "ok")
            ev == [EventID |-> eid, RequestID |-> id, NewStatus |-> s,
                   ChangedAt |-> FormatRFC3339(now)]
        IN  /\ r.resp.code = 200
            /\ r.resp.out = [requestId |-> id, newStatus |-> s,
                             changedAt |-> FormatRFC3339(now), eventId |-> eid]
            /\ r.table[PKOf(id)].status = s
            /\ getStringAttr(r.table[PKOf(id)], "statusUpdatedAt").v = FormatRFC3339(now)
            /\ queue \subseteq r.queue
            /\ Cardinality(r.queue \ queue) = 1
            /\ \A m \in r.queue \ queue : Unmarshal(m.body) = [err |-> FALSE, ev |-> ev]
            /\ r.events = {[ev |-> ev, sent |-> TRUE]}

(* A transition to the current value has happened (two events with status
   DONE sent for a request that is DONE), and DONE to PENDING is accepted *)
C14_Witness ==
    \E e1, e2 \in emitted :
        /\ e1 # e2 /\ e1.sent /\ e2.sent
        /\ e1.ev.RequestID = e2.ev.RequestID
        /\ e1.ev.NewStatus = "DONE" /\ e2.ev.NewStatus = "DONE"
        /\ store[PKOf(e1.ev.RequestID)].status = "DONE"
        /\ AdminPatch(e1.ev.RequestID, "PENDING", clock).table[PKOf(e1.ev.RequestID)].status = "PENDING"

----------------------------------------------------------------------------
(* Authorization headers that are not the valid credential: none, another
   token, the token without its scheme, the scheme without the token *)
BadAuthorizations == {"", "Bearer other-token", "dev-admin-token", "Bearer "}

(* Status values of a request body: the enum, and values outside it *)
BodyStatuses == EnumValues \cup {"", "BOGUS", "done"}

(* The result of a call that was turned away with the response code: nothing
   written, nothing sent, no event built *)
Rejected(r, code) ==
    r.resp.code = code /\ r.table = store /\ r.queue = queue /\ r.events = {}

(* C15: in every reachable state, a PATCH call without the valid credential
   returns 401 whatever the path id (existing or not), the body (JSON or not,
   status in the enum or not) and whether the store or the queue would fail;
   a call with the valid credential and a status outside the enum returns 400
   whatever the path id and whether the store or the queue would fail; in both
   cases the table and the queue are as before and no event is built. *)
C15_RejectedNoEffect ==
    \A id \in PathIds, now \in Nows, outcome \in PatchOutcomes :
        LET call(auth, badJson, st) ==
                patchStatus(store, queue, PatchInput(id, auth, badJson, st), FormatRFC3339(now),
                            NewEventID, outcome)
        IN  /\ \A auth \in BadAuthorizations, badJson \in BOOLEAN, st \in BodyStatuses :
                Rejected(call(auth, badJson, st), 401)
            /\ \A st \in BodyStatuses \ EnumValues :
                Rejected(call("Bearer dev-admin-token", FALSE, st), 400)

(* A request exists and a message is in the queue when calls are rejected *)
C15_Witness ==
    /\ queue # {}
    /\ \E id \in ExistingIds :
        /\ store[PKOf(id)].status = "IN_PROGRESS"
        /\ patchStatus(store, queue, PatchInput(id, "", FALSE, "DONE"), FormatRFC3339(clock),
                       NewEventID, "ok").resp.code = 401
        /\ patchStatus(store, queue, PatchInput(id, "Bearer dev-admin-token", FALSE, "BOGUS"),
                       FormatRFC3339(clock),
                       NewEventID, "ok").resp.code = 400

----------------------------------------------------------------------------
(* Two events built by two calls of the PATCH handler *)
TwoEmissions(e1, e2) == e1 \in emitted /\ e2 \in emitted /\ e1 # e2

(* Both messages were sent, deleted, and handled to a nil return once each *)
BothProcessedOnce(e1, e2) ==
    \A e \in {e1, e2} :
        /\ e.sent /\ IsDeleted(e.ev.EventID)
        /\ CopiesIn(<<e.ev.RequestID, e.ev.EventID>>, applies) = 1

(* C16: any two events built by the PATCH handler, sent, failed to be sent
   or about to be written or sent by a handler under way, have different
   eventIds, also when they are for the same request and the same status; every
   message the handler sent carries the eventId of its event, so no two
   messages of the API carry the same one; and when two events for the same
   request and the same status have both been processed once and deleted, the
   request's statusHistory has one entry for each of them, hence two at
   least. *)
C16_UniqueEventIds ==
    /\ \A e1, e2 \in emitted : e1 # e2 => e1.ev.EventID # e2.ev.EventID
    /\ \A h1, h2 \in inflight : h1.ev.EventID = h2.ev.EventID => h1.ev = h2.ev
    /\ \A h \in inflight, e \in emitted : h.ev.EventID # e.ev.EventID
    /\ \A m \in queue :
        m.mid \in EventIds =>
            /\ Unmarshal(m.body).ev.EventID = m.mid
            /\ \E e \in emitted : e.sent /\ Marshal(e.ev) = m.body
    /\ \A e1, e2 \in emitted :
        (/\ TwoEmissions(e1, e2) /\ BothProcessedOnce(e1, e2)
         /\ e1.ev.RequestID = e2.ev.RequestID /\ e1.ev.NewStatus = e2.ev.NewStatus) =>
            LET h == History(e1.ev.RequestID)
            IN  /\ EntriesFor(h, e1.ev.EventID) = 1
                /\ EntriesFor(h, e2.ev.EventID) = 1
                /\ Len(h) >= 2

(* Two transitions to DONE, both events processed: two entries *)
C16_Witness ==
    \E e1, e2 \in emitted :
        /\ TwoEmissions(e1, e2) /\ BothProcessedOnce(e1, e2)
        /\ e1.ev.RequestID = e2.ev.RequestID
        /\ e1.ev.NewStatus = "DONE" /\ e2.ev.NewStatus = "DONE"
        /\ Len(History(e1.ev.RequestID)) = 2

----------------------------------------------------------------------------
(* A body that decodes to an event for a request with no record *)
Orphan(body) == ~Unmarshal(body).err /\ ~Exists(Unmarshal(body).ev.RequestID)

(* C17: when a worker handles a message whose event references a request
   with no record, the store is unchanged; unless UpdateItem itself failed,
   applyStatusEvent returns nil and the worker goes on to DeleteMessage; no
   step of a worker adds or removes a record; applyStatusEvent on such an
   event returns the table as it is and no error; and every such message is
   eventually deleted: again and again the queue holds no such message. *)
C17_OrphanStep ==
    /\ \A w \in Workers :
        (Handles(w) /\ Orphan(Head(batch[w]).body)) =>
            /\ store' = store
            /\ ~Fails("apply", Head(batch[w]).mid) => wpc'[w] = "ack" /\ batch'[w] = batch[w]
    /\ WorkerMoves => DOMAIN store' = DOMAIN store

C17_OrphanApply ==
    \A m \in queue :
        Orphan(m.body) =>
            \A now \in Nows :
                applyStatusEvent(store, Unmarshal(m.body).ev, FormatRFC3339(now), FALSE)
                    = [table |-> store, err |-> FALSE]

C17_OrphanAcknowledged ==
    /\ [][C17_OrphanStep]_vars
    /\ []C17_OrphanApply
    /\ []<>(\A m \in queue : ~Orphan(m.body))

(* Such a message was deleted while a request exists *)
C17_Witness ==
    /\ ExistingIds # {}
    /\ \E d \in deleted : Orphan(d.body)
    /\ \E k \in BagToSet(applies) : ~Exists(k[1])

----------------------------------------------------------------------------
(* The attributes of a record nothing has touched since its creation *)
FreshAttrs == {"PK", "title", "status", "createdAt", "requesterToken"}

(* table2 is table with one record added, under the key of id, with the
   title and createdAt given, status PENDING, a token no record of table has,
   and none of the attributes set by a transition or by the worker *)
OneRecordAdded(table, table2, id, title, createdAt) ==
    /\ PKOf(id) \notin DOMAIN table
    /\ DOMAIN table2 = (DOMAIN table) \cup {PKOf(id)}
    /\ \A pk \in DOMAIN table : table2[pk] = table[pk]
    /\ LET item == table2[PKOf(id)]
       IN  /\ DOMAIN item = FreshAttrs
           /\ item.PK = PKOf(id)
           /\ item.title = title
           /\ item.createdAt = createdAt
           /\ item.status = "PENDING"
           /\ item.requesterToken # ""
           /\ \A pk \in DOMAIN table : table[pk].requesterToken # item.requesterToken

(* C18: in every reachable state, the checks of the POST handler answer 400
   to an empty title and to a body that is no JSON, before any call, and let
   a non-empty title pass; every handler past its checks has a non-empty
   title, and its PutItem, when it succeeds, adds exactly one record as
   OneRecordAdded describes, under the handler's identifier and with its
   token; every step that changes the set of records is such an addition by
   a handler at its PutItem and leaves the queue and the events built so far
   as they are; and no other step of a POST handler changes the table or the
   queue. *)
C18_CreateResult ==
    /\ \A in \in CreateInputs :
        IF in.badJson \/ in.title = "" THEN checkCreate(in).code = 400
        ELSE checkCreate(in).code = 0
    /\ \A h \in posting :
        /\ h.title # ""
        /\ (h.pc = "put" /\ ~Exists(h.id)) =>
            LET p == putRequest(store, NewRequestItem(h.id, h.title, h.createdAt, h.token),
                                FALSE)
            IN  /\ p.err = "nil"
                /\ OneRecordAdded(store, p.table, h.id, h.title, h.createdAt)
                /\ p.table[PKOf(h.id)].requesterToken = h.token

C18_CreateStep ==
    /\ DOMAIN store' # DOMAIN store =>
        /\ \E h \in posting :
            /\ h.pc = "put"
            /\ OneRecordAdded(store, store', h.id, h.title, h.createdAt)
            /\ store'[PKOf(h.id)].requesterToken = h.token
        /\ queue' = queue /\ emitted' = emitted /\ nForeign' = nForeign
    /\ (posting' # posting \/ nPosts' # nPosts \/ mainErr' # mainErr \/ answered' # answered) =>
        /\ queue' = queue
        /\ store' # store => DOMAIN store' # DOMAIN store

C18_CreatePersistsPending == []C18_CreateResult /\ [][C18_CreateStep]_vars

(* A record as the create left it, nothing sent *)
C18_Witness ==
    /\ queue = {} /\ emitted = {} /\ nForeign = 0
    /\ \E a \in answered : Exists(a.id)
    /\ \E pk \in DOMAIN store :
        DOMAIN store[pk] = FreshAttrs /\ store[pk].status = "PENDING" /\ store[pk].title = "t1"

----------------------------------------------------------------------------
(* C19: in every reachable state, whatever the workers have applied and in
   whatever order, a request's status and statusUpdatedAt are those written
   by the latest successful UpdateItem of a PATCH handler for it, and PENDING
   with no statusUpdatedAt when there was none; every successful UpdateItem
   of a PATCH handler is the latest one from then on, whatever the status was
   and whenever the handler read its time; and a step that lengthens a
   statusHistory is a worker's, adding at the end one entry, for the event
   that worker is handling. *)
C19_StatusIsLastWrite ==
    \A id \in ExistingIds :
        LET item == store[PKOf(id)]
        IN  IF id \notin DOMAIN lastWrite
            THEN item.status = "PENDING" /\ ~getStringAttr(item, "statusUpdatedAt").ok
            ELSE /\ item.status = lastWrite[id].status
                 /\ getStringAttr(item, "statusUpdatedAt").v = lastWrite[id].statusUpdatedAt

C19_WriteStep ==
    /\ \A h \in inflight :
        (h.pc = "update" /\ h \notin inflight' /\ store' # store) =>
            /\ store'[PKOf(h.ev.RequestID)].status = h.ev.NewStatus
            /\ store'[PKOf(h.ev.RequestID)].statusUpdatedAt = h.ev.ChangedAt
            /\ [h EXCEPT !.pc = "send"] \in inflight'
    /\ lastWrite' # lastWrite =>
        \E h \in inflight :
            /\ h.pc = "update" /\ h \notin inflight'
            /\ Exists(h.ev.RequestID)
            /\ lastWrite' = Record(lastWrite, h.ev.RequestID,
                                   [status |-> h.ev.NewStatus, statusUpdatedAt |-> h.ev.ChangedAt])

C19_HistoryStep ==
    \A pk \in DOMAIN store :
        (pk \in DOMAIN store' /\ HistoryOf(store'[pk]) # HistoryOf(store[pk])) =>
            LET h == HistoryOf(store[pk])
                h2 == HistoryOf(store'[pk])
            IN  /\ Len(h2) = Len(h) + 1
                /\ IsPrefix(h, h2)
                /\ \E w \in Workers :
                    /\ Handles(w)
                    /\ h2[Len(h2)].eventId = Unmarshal(Head(batch[w]).body).ev.EventID
                    /\ h2[Len(h2)].newStatus = Unmarshal(Head(batch[w]).body).ev.NewStatus

C19_LastWriterWins == []C19_StatusIsLastWrite /\ [][C19_WriteStep /\ C19_HistoryStep]_vars

(* Two events applied against the order of their writes, the queue drained:
   the last history entry is the earlier write's, the status the later's *)
C19_Witness ==
    /\ queue = {}
    /\ inflight = {}
    /\ \E e1, e2 \in emitted :
        /\ e1.ev.RequestID = e2.ev.RequestID
        /\ IsLastWrite(e2.ev)
        /\ e1.ev.NewStatus # e2.ev.NewStatus
        /\ LET item == store[PKOf(e1.ev.RequestID)]
               h == HistoryOf(item)
           IN  /\ Len(h) = 2
               /\ h[1].eventId = e2.ev.EventID
               /\ h[2].eventId = e1.ev.EventID
               /\ item.status = e2.ev.NewStatus
               /\ h[2].newStatus # item.status

----------------------------------------------------------------------------
(* The attributes the PATCH handler's UpdateExpression names *)
StatusAttrs == {"status", "statusUpdatedAt"}

(* The item without the attributes attrs *)
Without(item, attrs) == [a \in (DOMAIN item) \ attrs |-> item[a]]

(* table2 differs from table at most in the status attributes of the record
   of id *)
OnlyStatusChanged(table, table2, id) ==
    /\ DOMAIN table2 = DOMAIN table
    /\ \A pk \in DOMAIN table :
        IF pk = PKOf(id)
        THEN Without(table2[pk], StatusAttrs) = Without(table[pk], StatusAttrs)
        ELSE table2[pk] = table[pk]

(* C20: in every reachable state, for every PATCH call (any credential, any
   body, any status, existing id or not, the store or the queue failing or
   not), the table after the call differs from the table before at most in
   status and statusUpdatedAt of the request named: statusHistory, notifiedAt
   and lastEventId, present or absent, are as before, and so is every other
   attribute and record; a call that is answered 200 sets status and
   statusUpdatedAt to the values of the call; a call answered 400, 401 or
   404, or 500 by the store, leaves the table as it is; and every step of a
   handler, run between the steps of other handlers and of the workers,
   changes at most these two attributes of the request it names, and its
   SendMessage step changes nothing in the table. *)
C20_PatchFrame ==
    \A id \in PathIds, auth \in {"", ExpectedAuthorization}, badJson \in BOOLEAN,
       st \in BodyStatuses, now \in Nows, outcome \in PatchOutcomes :
        LET r == patchStatus(store, queue, PatchInput(id, auth, badJson, st),
                             FormatRFC3339(now), NewEventID, outcome)
        IN  /\ OnlyStatusChanged(store, r.table, id)
            /\ r.resp.code = 200 =>
                /\ r.table[PKOf(id)].status = st
                /\ r.table[PKOf(id)].statusUpdatedAt = FormatRFC3339(now)
            /\ r.events = {} => r.table = store

C20_PatchStep ==
    inflight' # inflight =>
        \E h \in (inflight \cup inflight') \ (inflight \cap inflight') :
            /\ OnlyStatusChanged(store, store', h.ev.RequestID)
            /\ (h \in inflight /\ h.pc = "send") => store' = store

C20_UpdateStatusFrame == []C20_PatchFrame /\ [][C20_PatchStep]_vars

(* A transition made after a worker's application: the history written at
   T0 is there with the status written at T1 *)
C20_Witness ==
    \E pk \in DOMAIN store :
        /\ Len(HistoryOf(store[pk])) >= 1
        /\ getStringAttr(store[pk], "notifiedAt").v = FormatRFC3339(0)
        /\ getStringAttr(store[pk], "lastEventId").ok
        /\ getStringAttr(store[pk], "statusUpdatedAt").v = FormatRFC3339(1)
        /\ \E e \in emitted : e.ev.ChangedAt = FormatRFC3339(1) /\ e.ev.NewStatus = store[pk].status

----------------------------------------------------------------------------
(* Worker w is done with the message at the head of its batch and is at the
   next one, or back at ReceiveMessage when there is none *)
Continues(w) ==
    /\ batch'[w] = Tail(batch[w])
    /\ wpc'[w] = IF Len(batch[w]) > 1 THEN "handle" ELSE "poll"

(* C21: every worker always has a next step (it is at ReceiveMessage with
   nothing in hand, or at a message of a non-empty batch); a receive that
   returns nothing or an error leaves it at ReceiveMessage; after a body that
   does not decode, after an error of applyStatusEvent and after a failed
   DeleteMessage it is at the next message of the batch, or at ReceiveMessage
   when the batch is finished, and the messages left in the batch are the
   same as before; a message that decodes takes it into applyStatusEvent and
   a nil return of applyStatusEvent takes it to DeleteMessage for that
   message; and every worker is at ReceiveMessage again and again. *)
C21_NeverStuck ==
    \A w \in Workers :
        /\ wpc[w] \in {"poll", "handle", "apply", "ack"}
        /\ wpc[w] = "poll" <=> batch[w] = <<>>
        /\ ENABLED (ReceiveNothing(w) \/ WorkerStep(w))

C21_ContinueStep ==
    \A w \in Workers :
        /\ ReceiveNothing(w) => wpc'[w] = "poll" /\ batch'[w] = <<>>
        /\ (wpc[w] # "poll" /\ (wpc'[w] # wpc[w] \/ batch'[w] # batch[w])) =>
            LET m == Head(batch[w])
            IN  /\ (Malformed(m.body) \/ Fails("apply", m.mid) \/ Fails("delete", m.mid))
                    => Continues(w)
                /\ \/ Continues(w)
                   \/ wpc[w] = "handle" /\ wpc'[w] = "apply" /\ batch'[w] = batch[w]
                   \/ wpc[w] = "apply" /\ wpc'[w] = "ack" /\ batch'[w] = batch[w]

C21_LoopNeverEnds ==
    /\ []C21_NeverStuck
    /\ [][C21_ContinueStep]_vars
    /\ \A w \in Workers : []<>(wpc[w] = "poll")

(* A worker at the second message of its batch, about to delete it after a
   nil return of applyStatusEvent, the first message having met a store error
   and being in flight, not deleted *)
C21_Witness ==
    \E w \in Workers :
        /\ wpc[w] = "ack" /\ Len(batch[w]) = 1
        /\ \E m \in queue :
            /\ m.mid # Head(batch[w]).mid
            /\ ~m.vis /\ m.owner = "none"
            /\ Failed("apply", m.mid)
        /\ \A v \in Workers \ {w} : wpc[v] = "poll"

----------------------------------------------------------------------------
(* The attributes the worker's UpdateExpression names *)
WorkerAttrs == {"notifiedAt", "lastEventId", "statusHistory"}

(* C22: in every reachable state every request record has none of
   notifiedAt, lastEventId and statusHistory, or all three; when it has them
   statusHistory is not empty, lastEventId is the eventId of its last entry
   and notifiedAt is that entry's handledAt. *)
C22_AnnotationConsistency ==
    \A pk \in DOMAIN store :
        LET item == store[pk]
            h == HistoryOf(item)
        IN  \/ WorkerAttrs \cap DOMAIN item = {}
            \/ /\ WorkerAttrs \subseteq DOMAIN item
               /\ Len(h) >= 1
               /\ item.lastEventId = h[Len(h)].eventId
               /\ item.notifiedAt = h[Len(h)].handledAt

(* Two events applied: the last entry's, not the first's, is lastEventId *)
C22_Witness ==
    \E pk \in DOMAIN store :
        LET h == HistoryOf(store[pk])
        IN  /\ Len(h) = 2
            /\ h[1].eventId # h[2].eventId
            /\ store[pk].lastEventId = h[2].eventId

----------------------------------------------------------------------------
(* The event worker w is about to apply or has just applied: the decoded
   body of the message at the head of its batch *)
EventOf(w) == Unmarshal(Head(batch[w]).body).ev

(* Workers w1 and w2 each have in hand a message that decodes, the two being
   for the same existing request and for different eventIds *)
Concurrent(w1, w2) ==
    /\ w1 # w2
    /\ batch[w1] # <<>> /\ batch[w2] # <<>>
    /\ ~Unmarshal(Head(batch[w1]).body).err /\ ~Unmarshal(Head(batch[w2]).body).err
    /\ EventOf(w1).RequestID = EventOf(w2).RequestID
    /\ EventOf(w1).EventID # EventOf(w2).EventID
    /\ Exists(EventOf(w1).RequestID)

(* The table after applyStatusEvent for ev1 at now1 and then for ev2 at now2 *)
ApplyBoth(table, ev1, now1, ev2, now2) ==
    applyStatusEvent(applyStatusEvent(table, ev1, now1, FALSE).table, ev2, now2, FALSE).table

(* The times worker w may apply its event with: the one it has read when it
   is in applyStatusEvent, any the clock can show when it has yet to read *)
TimesOf(w) == IF wpc[w] = "apply" THEN {wnow[w]} ELSE {FormatRFC3339(now) : now \in Nows}

(* C23: whenever two workers are both about to apply two different events,
   neither yet in the history, to the same request, each with the time it
   has read or has yet to read, then in either order both UpdateItems pass
   their condition and the history afterwards is the history before followed
   by the two entries in the order of the updates, each with its worker's
   time; and whenever two workers have both got nil from applyStatusEvent for
   two different events of the same request and neither has deleted its
   message yet, the history holds an entry for each. *)
C23_BothOrders ==
    \A w1, w2 \in Workers :
        (/\ Concurrent(w1, w2)
         /\ wpc[w1] \in {"handle", "apply"} /\ wpc[w2] \in {"handle", "apply"}
         /\ EntriesFor(History(EventOf(w1).RequestID), EventOf(w1).EventID) = 0
         /\ EntriesFor(History(EventOf(w1).RequestID), EventOf(w2).EventID) = 0) =>
            \A now1 \in TimesOf(w1), now2 \in TimesOf(w2) :
                LET pk == PKOf(EventOf(w1).RequestID)
                    t == ApplyBoth(store, EventOf(w1), now1, EventOf(w2), now2)
                IN  /\ ApplyCondition(store, pk, EventOf(w1))
                    /\ ApplyCondition(applyStatusEvent(store, EventOf(w1), now1, FALSE).table,
                                      pk, EventOf(w2))
                    /\ HistoryOf(t[pk]) = HistoryOf(store[pk])
                                            \o <<HistoryEntry(EventOf(w1), now1),
                                                 HistoryEntry(EventOf(w2), now2)>>

C23_BothApplied ==
    \A w1, w2 \in Workers :
        (Concurrent(w1, w2) /\ wpc[w1] = "ack" /\ wpc[w2] = "ack") =>
            /\ EntriesFor(History(EventOf(w1).RequestID), EventOf(w1).EventID) >= 1
            /\ EntriesFor(History(EventOf(w1).RequestID), EventOf(w2).EventID) >= 1

C23_NoLostAppend == C23_BothOrders /\ C23_BothApplied

(* Both workers have applied, neither has deleted: two entries, one each *)
C23_Witness ==
    \E w1, w2 \in Workers :
        /\ Concurrent(w1, w2) /\ wpc[w1] = "ack" /\ wpc[w2] = "ack"
        /\ LET h == History(EventOf(w1).RequestID)
           IN  /\ Len(h) = 2
               /\ h[1].eventId = EventOf(w2).EventID
               /\ h[2].eventId = EventOf(w1).EventID

----------------------------------------------------------------------------
(* The messages of the queue that the API sent *)
ApiMessages == {m \in queue : m.mid \in EventIds}

(* C24: in every reachable state, every PATCH call that adds a message to
   the queue is answered 200 and has written the message's newStatus and
   changedAt as status and statusUpdatedAt of the request the message names,
   and a call answered 401, 400, 404 or 500 by the store leaves the queue as
   it is; every message of the API in the queue names a request that has a
   record and is the encoding of an event built after a successful
   UpdateItem; a step that adds such a message is the SendMessage of a
   handler that is past its UpdateItem, and sends the encoding of that
   handler's event; a handler gets past its UpdateItem only in a step that
   writes its event's newStatus and changedAt as status and statusUpdatedAt
   of an existing record (other handlers may overwrite them before the
   message is sent); and for such a message the worker's condition fails only
   when the request's lastEventId is the message's eventId. *)
C24_SendAfterUpdate ==
    \A id \in PathIds, auth \in {"", ExpectedAuthorization}, st \in BodyStatuses,
       now \in Nows, outcome \in PatchOutcomes :
        LET r == patchStatus(store, queue, PatchInput(id, auth, FALSE, st),
                             FormatRFC3339(now), NewEventID, outcome)
        IN  /\ r.queue # queue =>
                /\ r.resp.code = 200
                /\ PKOf(id) \in DOMAIN store
                /\ \A m \in r.queue \ queue :
                    /\ Unmarshal(m.body).ev.RequestID = id
                    /\ r.table[PKOf(id)].status = Unmarshal(m.body).ev.NewStatus
                    /\ r.table[PKOf(id)].statusUpdatedAt = Unmarshal(m.body).ev.ChangedAt
            /\ r.resp.code # 200 => r.queue = queue
            /\ (r.resp.code \in {400, 401, 404} \/ outcome = "storeFails") =>
                r.table = store /\ r.events = {}

C24_ApiMessages ==
    \A m \in ApiMessages :
        LET ev == Unmarshal(m.body).ev
        IN  /\ ~Unmarshal(m.body).err
            /\ Exists(ev.RequestID)
            /\ \E e \in emitted : e.sent /\ e.ev = ev /\ e.ev.EventID = m.mid
            /\ ~ApplyCondition(store, PKOf(ev.RequestID), ev) =>
                getStringAttr(store[PKOf(ev.RequestID)], "lastEventId") = [v |-> ev.EventID, ok |-> TRUE]

C24_SendStep ==
    \A m \in queue' :
        (m.mid \in EventIds /\ ~InQueue(m.mid)) =>
            \E h \in inflight :
                /\ h.pc = "send" /\ h \notin inflight'
                /\ m.body = Marshal(h.ev) /\ m.mid = h.ev.EventID
                /\ PKOf(h.ev.RequestID) \in DOMAIN store

C24_UpdateStep ==
    \A h \in inflight' :
        (h.pc = "send" /\ h \notin inflight) =>
            /\ [h EXCEPT !.pc = "update"] \in inflight
            /\ PKOf(h.ev.RequestID) \in DOMAIN store
            /\ store'[PKOf(h.ev.RequestID)].status = h.ev.NewStatus
            /\ getStringAttr(store'[PKOf(h.ev.RequestID)], "statusUpdatedAt").v = h.ev.ChangedAt

C24_EnqueueOnlyAfterUpdate ==
    /\ [](C24_SendAfterUpdate /\ C24_ApiMessages)
    /\ [][C24_SendStep /\ C24_UpdateStep]_vars

(* A message of the API met the worker's condition failing: it is delivered
   again while its event is the last one applied *)
C24_Witness ==
    \E w \in Workers :
        /\ wpc[w] = "handle"
        /\ Head(batch[w]).mid \in EventIds
        /\ ~ApplyCondition(store, PKOf(EventOf(w).RequestID), EventOf(w))
        /\ store[PKOf(EventOf(w).RequestID)].lastEventId = EventOf(w).EventID

====
